---- MODULE Spec2Model ----
(***************************************************************************)
(* Block-device conformance tester of lib/bio/debug.c: is_valid_block,     *)
(* erase_test, get_signature, write_test and bio_test_device, run against  *)
(* a block device whose erase, write_block and read_block may each succeed,*)
(* fail with a negative status, transfer short, or silently misbehave.     *)
(***************************************************************************)
EXTENDS Integers, Sequences, FiniteSets, TLC

(* ------------------------------ bounds --------------------------------- *)

\* largest device->block_size explored
MaxBlockSize == 2

\* largest device->block_count explored
MaxBlockCount == 3

\* longest reference pattern handed to is_valid_block in SpecValid
MaxPatternLen == 2

(* --------------------------- program constants ------------------------- *)

\* ERR_IO of err.h: the negative status erase_test returns for a short erase
ERR_IO == -20

(* ------------------------------ input sets ----------------------------- *)

\* negative statuses a device operation may report
DeviceErrors == {ERR_IO, ERR_IO - 1}

\* values device->erase_byte takes
EraseBytes == {0, 255}

\* fill bytes of the device before the test starts
InitialBytes == {0, 165}

\* bytes a misbehaving read substitutes for a stored byte
CorruptBytes == {0, 1}

\* bytes of blocks and patterns in SpecValid
UnitBytes == {0, 1, 2}

VARIABLES
    device,          \* bdev_t: block_size, block_count, total_size, erase_byte
    mem,             \* the device's stored blocks, bnum -> sequence of bytes
    pc,              \* position of the control flow
    caller,          \* which loop called is_valid_block
    bnum,            \* loop variable of the running block loop
    pattern,         \* is_valid_block's pattern argument (pattern_length = Len)
    n_bytes,         \* is_valid_block's n_bytes
    block_contents,  \* is_valid_block's scratch buffer contents
    iv_ret,          \* value is_valid_block returned last
    count,           \* num_invalid_blocks / num_errors of the running loop
    erase_ret,       \* <<value erase_test returned>>, <<>> before it returns
    write_ret,       \* <<value write_test returned>>, <<>> before it returns
    verdict,         \* <<value bio_test_device returned>>, <<>> before
    heap,            \* live allocations per scratch buffer
    double_free,     \* a free() hit a buffer that was not live
    faithful,        \* the device has behaved correctly so far
    trace            \* device calls issued so far, in order

vars == <<device, mem, pc, caller, bnum, pattern, n_bytes, block_contents,
          iv_ret, count, erase_ret, write_ret, verdict, heap, double_free,
          faithful, trace>>

(* ------------------------------ helpers -------------------------------- *)

\* a block filled with one byte: memset(buf, byte, size)
memset(byte, size) == [k \in 1..size |-> byte]

RECURSIVE Xor(_, _)
\* bitwise exclusive or of two naturals (C's ^ on uint8_t)
Xor(a, b) ==
    IF a = 0 THEN b
    ELSE IF b = 0 THEN a
    ELSE (((a % 2) + (b % 2)) % 2) + (2 * Xor(a \div 2, b \div 2))

\* get_signature: XOR of the four bytes of the 32-bit word
get_signature(word) ==
    LET sigptr == [i \in 0..3 |->
                     CASE i = 0 -> word % 256
                       [] i = 1 -> (word \div 256) % 256
                       [] i = 2 -> (word \div 65536) % 256
                       [] i = 3 -> (word \div 16777216) % 256]
    IN  Xor(Xor(Xor(sigptr[0], sigptr[1]), sigptr[2]), sigptr[3])

RECURSIVE CompareLoop_inverted(_, _, _, _)
\* the compare loop with the comparison inverted (== for !=)
CompareLoop_inverted(contents, pat, size, i) ==
    IF i >= size THEN TRUE
    ELSE IF contents[i + 1] = pat[(i % Len(pat)) + 1] THEN FALSE
    ELSE CompareLoop_inverted(contents, pat, size, i + 1)

RECURSIVE CompareLoop_nowrap(_, _, _, _)
\* the compare loop checking every byte against pattern[0] only
CompareLoop_nowrap(contents, pat, size, i) ==
    IF i >= size THEN TRUE
    ELSE IF contents[i + 1] # pat[1] THEN FALSE
    ELSE CompareLoop_nowrap(contents, pat, size, i + 1)

RECURSIVE CompareLoop(_, _, _, _)
\* the for loop of is_valid_block from index i on: FALSE at the first
\* position where block_contents[i] != pattern[i % pattern_length]
CompareLoop(contents, pat, size, i) ==
    IF i >= size THEN TRUE
    ELSE IF contents[i + 1] # pat[(i % Len(pat)) + 1] THEN FALSE
    ELSE CompareLoop(contents, pat, size, i + 1)

\* is_valid_block's return value, given what read_block delivered
is_valid_block(n, contents, pat, size) ==
    IF n < 0 \/ n # size THEN FALSE
    ELSE CompareLoop(contents, pat, size, 0)

\* memalign(): one more live allocation of the named buffer
memalign(h, buf) == [h EXCEPT ![buf] = @ + 1]

\* free(): one less live allocation of the named buffer
free(h, buf) == [h EXCEPT ![buf] = IF @ > 0 THEN @ - 1 ELSE 0]

\* free() of a buffer that is not live
BadFree(h, buf) == h[buf] = 0

\* total number of live scratch buffers
Live(h) == h.block_contents + h.test_buffer

\* one entry of the call trace: the call, the loop issuing it, its block
\* (or offset) and count (or length) arguments, the status it returned and,
\* for a read, whether the block read back in full and equal to the pattern
Event(op, phase, b, len, ret, good) ==
    [op |-> op, phase |-> phase, bnum |-> b, len |-> len, ret |-> ret,
     good |-> good]

(* ----------------------- decisions of the code ------------------------- *)

\* the erase check without the comparison against total_size
erase_failed_negative(err, total_size) == err < 0

\* erase_test, lines 320-324: the erase call did not fully succeed
erase_failed(err, total_size) == err < 0 \/ err # total_size

\* erase_test, lines 320-324: the status returned for a failed erase call
erase_error(err) == IF err < 0 THEN err ELSE ERR_IO

\* the loop exit test off by one: the last block is never visited
loop_done_early(b, block_count) == ~(b + 1 < block_count)

\* the block loops' exit test, !(bnum < device->block_count)
loop_done(b, block_count) == ~(b < block_count)

\* the counting step with the negation dropped: counts the valid blocks
next_count_unnegated(cnt, valid) == IF valid THEN cnt + 1 ELSE cnt

\* if (!is_valid_block(...)) num++ of both validation loops
next_count(cnt, valid) == IF ~valid THEN cnt + 1 ELSE cnt

\* the write loop without its status check
write_failed_unchecked(err) == FALSE

\* write_test, line 350: the write call failed
write_failed(err) == err < 0

\* the error path returning without free(test_buffer)
free_on_write_error_leak(h) == h

\* write_test, line 351: the error path releases test_buffer
free_on_write_error(h) == free(h, "test_buffer")

\* the erase check that stops only on a negative status
erase_phase_fails_negative(num_errors) == num_errors < 0

\* bio_test_device, lines 373-382: the erase phase ends the test
erase_phase_fails(num_errors) == num_errors < 0 \/ num_errors # 0

\* the final check treating only a positive count as failure
write_verdict_positive(num_errors) == IF num_errors > 0 THEN -1 ELSE 0

\* bio_test_device, lines 386-390: the value returned after write_test
write_verdict(num_errors) == IF num_errors # 0 THEN -1 ELSE 0

(* --------------------------- the block device -------------------------- *)

Blocks == 0..(device.block_count - 1)

\* all blocks holding the erase byte
ErasedMem == [b \in Blocks |-> memset(device.erase_byte, device.block_size)]

\* what device->erase(0, total_size) may do: report an error or a wrong
\* count and erase nothing, or report total_size having erased any subset
EraseOutcomes ==
    {[ret |-> r, mem |-> mem] :
        r \in DeviceErrors \cup {0, device.total_size - 1, device.total_size + 1}}
    \cup
    {[ret |-> device.total_size,
      mem |-> [b \in Blocks |-> IF b \in S THEN ErasedMem[b] ELSE mem[b]]] :
        S \in SUBSET Blocks}

\* what device->write_block(buf, b, 1) may do: report an error and store
\* nothing, or report block_size or a short count, having stored or dropped
WriteOutcomes(b, buf) ==
    {[ret |-> r, mem |-> mem] : r \in DeviceErrors}
    \cup
    {[ret |-> r, mem |-> m] :
        r \in {device.block_size, device.block_size - 1},
        m \in {mem, [mem EXCEPT ![b] = buf]}}

\* what device->read_block(buf, b, 1) may do: report an error, deliver a
\* short prefix, or deliver a full block, stored or with one byte changed
ReadOutcomes(b) ==
    {[ret |-> r, data |-> <<>>] : r \in DeviceErrors}
    \cup
    {[ret |-> device.block_size - 1,
      data |-> SubSeq(mem[b], 1, device.block_size - 1)]}
    \cup
    {[ret |-> device.block_size, data |-> mem[b]]}
    \cup
    {[ret |-> device.block_size, data |-> [mem[b] EXCEPT ![k] = c]] :
        k \in 1..device.block_size, c \in CorruptBytes}

\* the block read back in full and equal to the repeated pattern
Conforms(n, data, pat, size) ==
    /\ n = size
    /\ \A k \in 0..(size - 1) : data[k + 1] = pat[(k % Len(pat)) + 1]

(* ------------------------------- states -------------------------------- *)

Device(bs, bc, eb) ==
    [block_size |-> bs, block_count |-> bc, total_size |-> bs * bc,
     erase_byte |-> eb]

InitCommon ==
    /\ caller = "none"
    /\ bnum = 0
    /\ pattern = <<>>
    /\ n_bytes = 0
    /\ block_contents = <<>>
    /\ iv_ret = FALSE
    /\ count = 0
    /\ erase_ret = <<>>
    /\ write_ret = <<>>
    /\ verdict = <<>>
    /\ heap = [block_contents |-> 0, test_buffer |-> 0]
    /\ double_free = FALSE
    /\ faithful = TRUE
    /\ trace = <<>>

\* entry of bio_test_device on a device of any geometry and contents
Init ==
    /\ \E bs \in 1..MaxBlockSize, bc \in 0..MaxBlockCount, eb \in EraseBytes :
          device = Device(bs, bc, eb)
    /\ \E g \in InitialBytes :
          mem = [b \in 0..(device.block_count - 1) |->
                    memset(g, device.block_size)]
    /\ pc = "bio_test_device"
    /\ InitCommon

(* ------------------------------ erase_test ----------------------------- *)

\* bio_test_device calls erase_test: bio_erase(device, 0, total_size) and
\* the checks of its status; a failure returns to bio_test_device
EraseCall ==
    /\ pc = "bio_test_device"
    /\ \E o \in EraseOutcomes :
          /\ mem' = o.mem
          /\ trace' = Append(trace, Event("erase", "erase", 0, device.total_size,
                                        o.ret, TRUE))
          /\ faithful' = (faithful /\ o.ret = device.total_size
                                   /\ o.mem = ErasedMem)
          /\ IF erase_failed(o.ret, device.total_size)
             THEN /\ erase_ret' = <<erase_error(o.ret)>>
                  /\ pc' = "erase_ret"
             ELSE /\ erase_ret' = erase_ret
                  /\ pc' = "erase_loop"
    /\ bnum' = 0
    /\ count' = 0
    /\ UNCHANGED <<device, caller, pattern, n_bytes, block_contents, iv_ret,
                   write_ret, verdict, heap, double_free>>

\* the validation loop of erase_test calls is_valid_block on block bnum
EraseValidate ==
    /\ pc = "erase_loop"
    /\ ~loop_done(bnum, device.block_count)
    /\ pattern' = <<device.erase_byte>>
    /\ caller' = "erase"
    /\ pc' = "iv_read"
    /\ UNCHANGED <<device, mem, bnum, n_bytes, block_contents, iv_ret, count,
                   erase_ret, write_ret, verdict, heap, double_free, faithful,
                   trace>>

\* the validation loop of erase_test ends: return num_invalid_blocks
EraseTestReturn ==
    /\ pc = "erase_loop"
    /\ loop_done(bnum, device.block_count)
    /\ erase_ret' = <<count>>
    /\ pc' = "erase_ret"
    /\ UNCHANGED <<device, mem, caller, bnum, pattern, n_bytes, block_contents,
                   iv_ret, count, write_ret, verdict, heap, double_free,
                   faithful, trace>>

(* ---------------------------- is_valid_block --------------------------- *)

\* memalign of the scratch buffer and the one read_block call
IsValidBlockRead ==
    /\ pc = "iv_read"
    /\ heap' = memalign(heap, "block_contents")
    /\ \E o \in ReadOutcomes(bnum) :
          /\ n_bytes' = o.ret
          /\ block_contents' = o.data
          /\ faithful' = (faithful /\ o.ret = device.block_size
                                   /\ o.data = mem[bnum])
          /\ trace' = Append(trace,
                 Event("read", caller, bnum, 1, 0,
                       Conforms(o.ret, o.data, pattern, device.block_size)))
    /\ pc' = "iv_check"
    /\ UNCHANGED <<device, mem, caller, bnum, pattern, iv_ret, count,
                   erase_ret, write_ret, verdict, double_free>>

\* the length check, the compare loop, free on each of the three exits, and
\* the caller's use of the result: count it and step to the next block
IsValidBlockReturn ==
    /\ pc = "iv_check"
    /\ iv_ret' = is_valid_block(n_bytes, block_contents, pattern,
                                device.block_size)
    /\ double_free' = (double_free \/ BadFree(heap, "block_contents"))
    /\ heap' = free(heap, "block_contents")
    /\ n_bytes' = 0
    /\ block_contents' = <<>>
    /\ IF caller = "unit"
       THEN /\ pc' = "unit"
            /\ UNCHANGED <<bnum, count>>
       ELSE /\ pc' = IF caller = "erase" THEN "erase_loop" ELSE "verify_loop"
            /\ count' = next_count(count, iv_ret')
            /\ bnum' = bnum + 1
    /\ UNCHANGED <<device, mem, caller, pattern, erase_ret, write_ret,
                   verdict, faithful, trace>>

(* ----------------------------- write_test ------------------------------ *)

\* bio_test_device checks erase_test's result: a negative status or a
\* nonzero count returns -1, otherwise write_test starts and allocates
AfterEraseTest ==
    /\ pc = "erase_ret"
    /\ IF erase_phase_fails(erase_ret[1])
       THEN /\ verdict' = <<-1>>
            /\ pc' = "done"
            /\ heap' = heap
       ELSE /\ verdict' = verdict
            /\ pc' = "write_loop"
            /\ heap' = memalign(heap, "test_buffer")
    /\ bnum' = 0
    /\ UNCHANGED <<device, mem, caller, pattern, n_bytes, block_contents,
                   iv_ret, count, erase_ret, write_ret, double_free, faithful,
                   trace>>

\* the write loop: fill test_buffer with the signature, bio_write_block,
\* and on a negative status free the buffer and return the status
WriteBlock ==
    /\ pc = "write_loop"
    /\ ~loop_done(bnum, device.block_count)
    /\ LET test_buffer == memset(get_signature(bnum), device.block_size)
       IN  \E o \in WriteOutcomes(bnum, test_buffer) :
              /\ mem' = o.mem
              /\ trace' = Append(trace,
                     Event("write", "write", bnum, 1, o.ret, TRUE))
              /\ faithful' = (faithful /\ o.ret = device.block_size
                                       /\ o.mem[bnum] = test_buffer)
              /\ IF write_failed(o.ret)
                 THEN /\ heap' = free_on_write_error(heap)
                      /\ double_free' = (double_free \/ BadFree(heap, "test_buffer"))
                      /\ write_ret' = <<o.ret>>
                      /\ pc' = "write_ret"
                      /\ bnum' = bnum
                 ELSE /\ UNCHANGED <<heap, double_free, write_ret>>
                      /\ pc' = "write_loop"
                      /\ bnum' = bnum + 1
    /\ UNCHANGED <<device, caller, pattern, n_bytes, block_contents, iv_ret,
                   count, erase_ret, verdict>>

\* the write loop ends: num_errors = 0 and the validation loop starts
WriteLoopDone ==
    /\ pc = "write_loop"
    /\ loop_done(bnum, device.block_count)
    /\ count' = 0
    /\ bnum' = 0
    /\ pc' = "verify_loop"
    /\ UNCHANGED <<device, mem, caller, pattern, n_bytes, block_contents,
                   iv_ret, erase_ret, write_ret, verdict, heap, double_free,
                   faithful, trace>>

\* the validation loop of write_test calls is_valid_block on block bnum
WriteValidate ==
    /\ pc = "verify_loop"
    /\ ~loop_done(bnum, device.block_count)
    /\ pattern' = <<get_signature(bnum)>>
    /\ caller' = "write"
    /\ pc' = "iv_read"
    /\ UNCHANGED <<device, mem, bnum, n_bytes, block_contents, iv_ret, count,
                   erase_ret, write_ret, verdict, heap, double_free, faithful,
                   trace>>

\* the validation loop ends: free test_buffer and return num_errors
WriteTestReturn ==
    /\ pc = "verify_loop"
    /\ loop_done(bnum, device.block_count)
    /\ double_free' = (double_free \/ BadFree(heap, "test_buffer"))
    /\ heap' = free(heap, "test_buffer")
    /\ write_ret' = <<count>>
    /\ pc' = "write_ret"
    /\ UNCHANGED <<device, mem, caller, bnum, pattern, n_bytes, block_contents,
                   iv_ret, count, erase_ret, verdict, faithful, trace>>

\* bio_test_device checks write_test's result and returns
AfterWriteTest ==
    /\ pc = "write_ret"
    /\ verdict' = <<write_verdict(write_ret[1])>>
    /\ pc' = "done"
    /\ UNCHANGED <<device, mem, caller, bnum, pattern, n_bytes, block_contents,
                   iv_ret, count, erase_ret, write_ret, heap, double_free,
                   faithful, trace>>

Next ==
    \/ EraseCall
    \/ EraseValidate
    \/ EraseTestReturn
    \/ IsValidBlockRead
    \/ IsValidBlockReturn
    \/ AfterEraseTest
    \/ WriteBlock
    \/ WriteLoopDone
    \/ WriteValidate
    \/ WriteTestReturn
    \/ AfterWriteTest

Spec == Init /\ [][Next]_vars

(* ------------------- is_valid_block on arbitrary inputs ---------------- *)

\* reference patterns of every length up to MaxPatternLen
Patterns ==
    UNION {[1..n -> UnitBytes] : n \in 1..MaxPatternLen}

\* a one-block device about to be validated against a pattern
InitValid ==
    /\ \E bs \in 1..(MaxBlockSize + 1) : device = Device(bs, 1, 0)
    /\ mem = [b \in {0} |-> memset(0, device.block_size)]
    /\ pc = "unit"
    /\ InitCommon

\* a call is_valid_block(device, 0, pattern, Len(pattern)) with the block
\* holding any contents
UnitCall ==
    /\ pc = "unit"
    /\ \E data \in [1..device.block_size -> UnitBytes] :
          mem' = [mem EXCEPT ![0] = data]
    /\ \E pat \in Patterns : pattern' = pat
    /\ caller' = "unit"
    /\ bnum' = 0
    /\ trace' = <<>>
    /\ faithful' = TRUE
    /\ pc' = "iv_read"
    /\ UNCHANGED <<device, n_bytes, block_contents, iv_ret, count, erase_ret,
                   write_ret, verdict, heap, double_free>>

NextValid ==
    \/ UnitCall
    \/ IsValidBlockRead
    \/ IsValidBlockReturn

SpecValid == InitValid /\ [][NextValid]_vars

(* ------------------------- reading the call trace ---------------------- *)

\* positions of the trace holding a call of the given kind
Calls(op) == {i \in DOMAIN trace : trace[i].op = op}

\* positions of the validation reads issued by the given loop
Reads(phase) == {i \in Calls("read") : trace[i].phase = phase}

\* positions of the validation reads that did not validate
BadReads(phase) == {i \in Reads(phase) : ~trace[i].good}

\* the erase call was issued and did not report total_size
EraseCallFailed ==
    \E i \in Calls("erase") : trace[i].ret # device.total_size

\* the erase call was issued and reported total_size
EraseCallSucceeded ==
    \E i \in Calls("erase") : trace[i].ret = device.total_size

\* the given loop has read blocks 0 .. n-1, each once and in order,
\* starting right after trace position `from`
ReadInOrder(phase, from, n) ==
    /\ Reads(phase) = (from + 1)..(from + n)
    /\ \A i \in Reads(phase) : trace[i].bnum = i - from - 1

(* -------------------------------- claims ------------------------------- *)

\* C1: bio_test_device returns 0 (PASS) exactly when erase_test returned 0
\* and write_test returned 0, and returns -1 (FAIL) in every other outcome.
C1_VerdictIffBothZero ==
    pc = "done" =>
        /\ verdict \in {<<0>>, <<-1>>}
        /\ (verdict = <<0>>) <=> (erase_ret = <<0>> /\ write_ret = <<0>>)

\* C1 witness: the test has ended with PASS after both phases returned 0
C1_Witness ==
    pc = "done" /\ verdict = <<0>> /\ erase_ret = <<0>> /\ write_ret = <<0>>

\* C2: once the erase phase has failed (the erase call reported a status
\* other than total_size, or a block did not read back as the erase byte)
\* no write_block call is ever issued and the test ends with FAIL.
C2_FailedEraseSkipsWrites ==
    (EraseCallFailed \/ BadReads("erase") # {}) =>
        /\ Calls("write") = {}
        /\ Reads("write") = {}
        /\ write_ret = <<>>
        /\ pc = "done" => verdict = <<-1>>

\* C2 witness: the test ended after an erased block failed validation
C2_Witness ==
    /\ pc = "done"
    /\ EraseCallSucceeded
    /\ BadReads("erase") # {}

\* C3: erase_test issues exactly one erase call, at offset 0 and of length
\* total_size; when that call reports a negative status or a count other
\* than total_size, erase_test returns a negative value (the negative status
\* itself, when there is one) and no block is read.
C3_EraseErrorPropagates ==
    /\ Cardinality(Calls("erase")) = (IF pc = "bio_test_device" THEN 0 ELSE 1)
    /\ \A i \in Calls("erase") :
          i = 1 /\ trace[i].bnum = 0 /\ trace[i].len = device.total_size
    /\ EraseCallFailed =>
          /\ Len(erase_ret) = 1
          /\ erase_ret[1] < 0
          /\ trace[1].ret < 0 => erase_ret[1] = trace[1].ret
          /\ Calls("read") = {}

\* C3 witness: erase_test returned after a short (non-negative) erase count
C3_Witness ==
    /\ EraseCallFailed
    /\ trace[1].ret >= 0
    /\ erase_ret # <<>>

\* C4: after an erase call that reported total_size, erase_test reads every
\* block 0 .. block_count-1 once, in order, whatever the earlier blocks
\* read back as, and returns the number of blocks that failed validation.
C4_EraseCountsInvalidBlocks ==
    (EraseCallSucceeded /\ erase_ret # <<>>) =>
        /\ ReadInOrder("erase", 1, device.block_count)
        /\ erase_ret = <<Cardinality(BadReads("erase"))>>

\* C4 witness: erase_test returned a count strictly between 0 and
\* block_count, a failing block having been followed by a passing one
C4_Witness ==
    /\ EraseCallSucceeded
    /\ erase_ret # <<>>
    /\ \E i \in BadReads("erase") :
          \E j \in Reads("erase") \ BadReads("erase") : i < j

\* C5: a write_block call that reports a negative status is the last device
\* call of the test: write_test returns that status, no later block is
\* written, no block is read back, and the verdict is FAIL.
C5_WriteErrorAborts ==
    \A i \in Calls("write") :
        trace[i].ret < 0 =>
            /\ i = Len(trace)
            /\ Reads("write") = {}
            /\ write_ret = <<trace[i].ret>>
            /\ pc \in {"write_ret", "done"}
            /\ pc = "done" => verdict = <<-1>>

\* C5 witness: the test ended on a write error at a block after block 0
C5_Witness ==
    /\ pc = "done"
    /\ \E i \in Calls("write") : trace[i].ret < 0 /\ trace[i].bnum > 0

\* C6: a write_block call that reports a non-negative count smaller than
\* block_size is the last device call of the test, like a negative status.
C6_ShortWriteAborts ==
    \A i \in Calls("write") :
        (trace[i].ret >= 0 /\ trace[i].ret < device.block_size) =>
            /\ i = Len(trace)
            /\ Reads("write") = {}

\* C7: on a device that has behaved faithfully throughout, erase_test
\* returns 0, write_test returns 0, every block ends up filled with its
\* signature, and bio_test_device returns PASS.
C7_FaithfulDevicePasses ==
    faithful =>
        /\ erase_ret \in {<<>>, <<0>>}
        /\ write_ret \in {<<>>, <<0>>}
        /\ pc \in {"write_ret", "done"} =>
              /\ write_ret = <<0>>
              /\ \A b \in Blocks :
                    mem[b] = memset(get_signature(b), device.block_size)
        /\ pc = "done" => verdict = <<0>>

\* C7 witness: a faithful device of the largest geometry has passed
C7_Witness ==
    /\ faithful
    /\ pc = "done"
    /\ device.block_count = MaxBlockCount
    /\ device.block_size = MaxBlockSize

C9_WritesBeforeReads ==
    \A r \in Reads("write") :
        /\ \A b \in Blocks :
              \E w \in Calls("write") :
                 w < r /\ trace[w].bnum = b /\ trace[w].ret >= 0
        /\ \A w \in Calls("write") : w < r

\* C9 witness: a device of several blocks is being read back
C9_Witness ==
    /\ Reads("write") # {}
    /\ device.block_count > 1

\* C10: no scratch buffer is live except inside the call that allocated it
\* (block_contents between is_valid_block's read and its return,
\* test_buffer between write_test's entry and its return), so each call
\* returns with as many live buffers as at its entry; no buffer is freed
\* twice.
C10_BuffersReleased ==
    /\ ~double_free
    /\ heap.block_contents = (IF pc = "iv_check" THEN 1 ELSE 0)
    /\ heap.test_buffer =
          (IF \/ pc \in {"write_loop", "verify_loop"}
              \/ (pc \in {"iv_read", "iv_check"} /\ caller = "write")
           THEN 1 ELSE 0)

\* C10 witness: write_test has returned through its write-error path
C10_Witness ==
    /\ pc = "write_ret"
    /\ \E i \in Calls("write") : trace[i].ret < 0
    /\ Live(heap) = 0

====
